---------------------------- MODULE Spec2Model ----------------------------
(***************************************************************************)
(* A model of oggvorbismeta (src/src/lib.rs): the vorbis comment block     *)
(* (CommentHeader and the VorbisComments operations), its encoder          *)
(* make_comment_header, the locator read_comment_header and the patcher    *)
(* replace_comment_header.                                                 *)
(*                                                                         *)
(* Text is a sequence of byte values (ASCII), a packet payload a sequence  *)
(* of bytes.  The two libraries the code calls are modelled by what they   *)
(* do at the call sites: ogg's PacketReader yields the packets of the      *)
(* source one by one (or a read error), ogg's PacketWriter receives the    *)
(* write_packet calls, lewton's read_header_comment parses a payload.      *)
(***************************************************************************)
EXTENDS Integers, Sequences, FiniteSets, TLC

(***************************************************************************)
(* Bounds of the model.                                                    *)
(***************************************************************************)
MaxPackets == 3
MaxTags == 2

(***************************************************************************)
(* Program constants.                                                      *)
(***************************************************************************)
\* end: u8 = 1, the framing byte
FramingByte == 1
\* the header type of a comment header, start[0]
CommentType == 3

\* start = [3u8, 118, 111, 114, 98, 105, 115]
Signature == <<CommentType, 118, 111, 114, 98, 105, 115>>

-----------------------------------------------------------------------------
(***************************************************************************)
(* Text                                                                    *)
(***************************************************************************)
EqSign == 61

\* "Ogg"
Ogg == <<79, 103, 103>>
\* "", "Ogg", "x"
Vendors == {<< >>, Ogg, <<120>>}
\* "a", "A", "a=", "="
Keys == {<<97>>, <<65>>, <<97, EqSign>>, <<EqSign>>}
\* "", "b", "=b"
Values == {<< >>, <<98>>, <<EqSign, 98>>}

\* char::to_lowercase on ASCII
LowerByte(b) == IF b >= 65 /\ b <= 90 THEN b + 32 ELSE b

\* str::to_lowercase
to_lowercase(s) == [i \in 1..Len(s) |-> LowerByte(s[i])]

\* String::from_utf8 accepts the payload bytes (the model's text is ASCII;
\* a byte above 127 stands for an ill-formed sequence)
IsUtf8(s) == \A i \in 1..Len(s) : s[i] < 128

\* str::find("="): the index of the first '=', 0 when there is none
RECURSIVE FindEqFrom(_, _)
FindEqFrom(s, i) ==
    IF i > Len(s) THEN 0
    ELSE IF s[i] = EqSign THEN i
    ELSE FindEqFrom(s, i + 1)

FindEq(s) == FindEqFrom(s, 1)

-----------------------------------------------------------------------------
(***************************************************************************)
(* CommentHeader and the VorbisComments operations                         *)
(***************************************************************************)
CommentHeader(vendor, comment_list) ==
    [vendor |-> vendor, comment_list |-> comment_list]

\* VorbisComments::from
from(vendor, comment_list) == CommentHeader(vendor, comment_list)

\* VorbisComments::new
new == CommentHeader(<< >>, << >>)

\* get_tag_multi: the values of the comments whose key is tag, ignoring case
\* a variant that compares the stored key as it is
RECURSIVE TagValuesFromStoredCase(_, _, _)
TagValuesFromStoredCase(comment_list, tag, i) ==
    IF i > Len(comment_list) THEN << >>
    ELSE IF comment_list[i][1] = to_lowercase(tag)
         THEN <<comment_list[i][2]>>
                  \o TagValuesFromStoredCase(comment_list, tag, i + 1)
    ELSE TagValuesFromStoredCase(comment_list, tag, i + 1)

RECURSIVE TagValuesFrom(_, _, _)
TagValuesFrom(comment_list, tag, i) ==
    IF i > Len(comment_list) THEN << >>
    ELSE IF to_lowercase(comment_list[i][1]) = to_lowercase(tag)
         THEN <<comment_list[i][2]>> \o TagValuesFrom(comment_list, tag, i + 1)
    ELSE TagValuesFrom(comment_list, tag, i + 1)

get_tag_multi(header, tag) == TagValuesFrom(header.comment_list, tag, 1)

\* Option<&str>
None == [some |-> FALSE, value |-> << >>]
Some(value) == [some |-> TRUE, value |-> value]

get_tag_single(header, tag) ==
    LET tags == get_tag_multi(header, tag)
    IN  IF Len(tags) # 0 THEN Some(tags[1]) ELSE None

\* the order of String: byte by byte from position i on, a proper prefix first
RECURSIVE StrLessFrom(_, _, _)
StrLessFrom(a, b, i) ==
    IF i > Len(b) THEN FALSE
    ELSE IF i > Len(a) THEN TRUE
    ELSE IF a[i] # b[i] THEN a[i] < b[i]
    ELSE StrLessFrom(a, b, i + 1)

StrLess(a, b) == StrLessFrom(a, b, 1)

\* name put at its place in the sorted names
RECURSIVE InsertSorted(_, _)
InsertSorted(name, names) ==
    IF Len(names) = 0 THEN <<name>>
    ELSE IF StrLess(names[1], name)
         THEN <<names[1]>> \o InsertSorted(name, Tail(names))
    ELSE <<name>> \o names

\* names.sort_unstable()
RECURSIVE SortNames(_)
SortNames(names) ==
    IF Len(names) = 0 THEN << >>
    ELSE InsertSorted(names[1], SortNames(Tail(names)))

\* a variant that keeps every name
DedupNone(names) == names

\* names.dedup(): of each run of equal names the first is kept
RECURSIVE Dedup(_)
Dedup(names) ==
    IF Len(names) <= 1 THEN names
    ELSE IF names[1] = names[2] THEN Dedup(Tail(names))
    ELSE <<names[1]>> \o Dedup(Tail(names))

get_tag_names(header) ==
    Dedup(SortNames([i \in 1..Len(header.comment_list) |->
                         to_lowercase(header.comment_list[i][1])]))

\* Vec::retain of the comments whose key is not tag, ignoring case
\* a variant that compares the keys letter case and all
RECURSIVE RetainOthersExact(_, _, _)
RetainOthersExact(comment_list, tag, i) ==
    IF i > Len(comment_list) THEN << >>
    ELSE IF comment_list[i][1] # tag
         THEN <<comment_list[i]>> \o RetainOthersExact(comment_list, tag, i + 1)
    ELSE RetainOthersExact(comment_list, tag, i + 1)

RECURSIVE RetainOthers(_, _, _)
RetainOthers(comment_list, tag, i) ==
    IF i > Len(comment_list) THEN << >>
    ELSE IF to_lowercase(comment_list[i][1]) # to_lowercase(tag)
         THEN <<comment_list[i]>> \o RetainOthers(comment_list, tag, i + 1)
    ELSE RetainOthers(comment_list, tag, i + 1)

clear_tag(header, tag) ==
    [header EXCEPT !.comment_list = RetainOthers(header.comment_list, tag, 1)]

add_tag_single(header, tag, value) ==
    [header EXCEPT !.comment_list = Append(@, <<to_lowercase(tag), value>>)]

\* a variant that pushes the tag as given
RECURSIVE PushValuesAsGiven(_, _, _, _)
PushValuesAsGiven(comment_list, tag, values, i) ==
    IF i > Len(values) THEN comment_list
    ELSE PushValuesAsGiven(Append(comment_list, <<tag, values[i]>>),
                           tag, values, i + 1)

\* the for loop of add_tag_multi: one push per value, from value i on
RECURSIVE PushValues(_, _, _, _)
PushValues(comment_list, tag, values, i) ==
    IF i > Len(values) THEN comment_list
    ELSE PushValues(Append(comment_list, <<to_lowercase(tag), values[i]>>),
                    tag, values, i + 1)

add_tag_multi(header, tag, values) ==
    [header EXCEPT !.comment_list = PushValues(@, tag, values, 1)]

get_vendor(header) == header.vendor

set_vendor(header, vend) == [header EXCEPT !.vendor = vend]

-----------------------------------------------------------------------------
(***************************************************************************)
(* make_comment_header                                                     *)
(***************************************************************************)
\* 2^16.  A usize or u32 value is held as its two 16-bit halves, hi * 2^16 + lo:
\* the model checker's integers end below 2^32.
Half == 256 * 256

\* the usize value n
USize(n) == [hi |-> n \div Half, lo |-> n % Half]

\* usize -> u32 by try_into(): Ok exactly up to u32::MAX
FitsU32(size) == size.hi < Half

\* a mutant of to_le_bytes: the bytes in big-endian order
to_be_bytes(size) ==
    << size.hi \div 256, size.hi % 256, size.lo \div 256, size.lo % 256 >>

\* u32::to_le_bytes
to_le_bytes(size) ==
    << size.lo % 256, size.lo \div 256, size.hi % 256, size.hi \div 256 >>

\* format!("{}={}", comment.0, comment.1)
FormatComment(comment) == comment[1] \o <<EqSign>> \o comment[2]

\* the lengths make_comment_header converts to u32: vendor.len() (line 122),
\* comment_list.len() (line 137) and each comment string's len() (lines 144-150)
HeaderSizes(header) ==
    [vendor_len  |-> USize(Len(header.vendor)),
     comment_nbr |-> USize(Len(header.comment_list)),
     comment_len |-> [i \in 1..Len(header.comment_list) |->
                         USize(Len(FormatComment(header.comment_list[i])))]]

\* whether one of the try_into().unwrap() conversions panics
ConversionPanics(sizes) ==
    \/ ~FitsU32(sizes.vendor_len)
    \/ ~FitsU32(sizes.comment_nbr)
    \/ \E i \in 1..Len(sizes.comment_len) : ~FitsU32(sizes.comment_len[i])

\* the loop over header.comment_list (lines 142-153): the bytes of the
\* comments from i on
RECURSIVE WriteComments(_, _)
WriteComments(comment_list, i) ==
    IF i > Len(comment_list) THEN << >>
    ELSE LET s == FormatComment(comment_list[i])
         IN  to_le_bytes(USize(Len(s))) \o s \o WriteComments(comment_list, i + 1)

\* a mutant of HeaderBytes: the framing byte is not pushed
HeaderBytesNoFraming(header) ==
    Signature
    \o to_le_bytes(USize(Len(header.vendor))) \o header.vendor
    \o to_le_bytes(USize(Len(header.comment_list)))
    \o WriteComments(header.comment_list, 1)

\* new_packet (lines 127-156)
HeaderBytes(header) ==
    Signature
    \o to_le_bytes(USize(Len(header.vendor))) \o header.vendor
    \o to_le_bytes(USize(Len(header.comment_list)))
    \o WriteComments(header.comment_list, 1)
    \o <<FramingByte>>

\* make_comment_header on a header whose lengths are sizes: the packet, or
\* the panic of an unwrap()
MakeCommentHeader(header, sizes) ==
    IF ConversionPanics(sizes) THEN [panic |-> TRUE, bytes |-> << >>]
    ELSE [panic |-> FALSE, bytes |-> HeaderBytes(header)]

make_comment_header(header) == MakeCommentHeader(header, HeaderSizes(header))

-----------------------------------------------------------------------------
(***************************************************************************)
(* lewton::header::read_header_comment, as called on a packet's data       *)
(***************************************************************************)
DecodeErr(why) == [ok |-> FALSE, err |-> why]

\* read_u32::<LittleEndian> at byte position pos (1-based)
from_le_bytes(data, pos) ==
    [hi |-> data[pos + 2] + 256 * data[pos + 3], lo |-> data[pos] + 256 * data[pos + 1]]

\* whether a length read from the packet exceeds n, a number below 2^16
Exceeds(size, n) == size.hi > 0 \/ size.lo > n

\* the comments of the packet (the for loop): n more to read from position pos;
\* read_exact fails when the packet holds fewer bytes than the length read
RECURSIVE ReadComments(_, _, _, _)
ReadComments(data, pos, n, acc) ==
    IF n.hi = 0 /\ n.lo = 0 THEN [ok |-> TRUE, list |-> acc, pos |-> pos]
    ELSE IF pos + 3 > Len(data) THEN DecodeErr("EndOfPacket")
    ELSE LET comment_length == from_le_bytes(data, pos)
         IN  IF Exceeds(comment_length, Len(data) - (pos + 3))
             THEN DecodeErr("EndOfPacket")
             ELSE LET len == comment_length.lo
                      comment == SubSeq(data, pos + 4, pos + 3 + len)
                      eq_idx == FindEq(comment)
                  IN  IF ~IsUtf8(comment) THEN DecodeErr("Utf8DecodeError")
                      ELSE IF eq_idx = 0 THEN DecodeErr("HeaderBadFormat")
                      ELSE ReadComments(data, pos + 4 + len,
                               IF n.lo = 0 THEN [hi |-> n.hi - 1, lo |-> Half - 1]
                                           ELSE [n EXCEPT !.lo = n.lo - 1],
                               Append(acc, << SubSeq(comment, 1, eq_idx - 1),
                                              SubSeq(comment, eq_idx + 1, Len(comment)) >>))

\* read_header_comment(&packet.data): Ok(header) or Err
read_header_comment(data) ==
    IF Len(data) < 7 THEN DecodeErr("EndOfPacket")
    ELSE IF SubSeq(data, 2, 7) # SubSeq(Signature, 2, 7) THEN DecodeErr("NotVorbisHeader")
    ELSE IF data[1] # CommentType THEN DecodeErr("HeaderBadType")
    ELSE IF Len(data) < 11 THEN DecodeErr("EndOfPacket")
    ELSE LET vendor_length == from_le_bytes(data, 8)
         IN  IF Exceeds(vendor_length, Len(data) - 11) THEN DecodeErr("EndOfPacket")
             ELSE LET vlen == vendor_length.lo
                      vendor == SubSeq(data, 12, 11 + vlen)
                      cpos == 12 + vlen
                  IN  IF ~IsUtf8(vendor) THEN DecodeErr("Utf8DecodeError")
                      ELSE IF cpos + 3 > Len(data) THEN DecodeErr("EndOfPacket")
                      ELSE LET comment_count == from_le_bytes(data, cpos)
                               cs == ReadComments(data, cpos + 4, comment_count, << >>)
                           IN  IF ~cs.ok THEN cs
                               ELSE IF cs.pos > Len(data) THEN DecodeErr("EndOfPacket")
                               ELSE IF data[cs.pos] # FramingByte
                                    THEN DecodeErr("HeaderBadFormat")
                               ELSE [ok |-> TRUE,
                                     hdr |-> CommentHeader(vendor, cs.list)]

-----------------------------------------------------------------------------
(***************************************************************************)
(* The packet source (ogg::PacketReader over f_in) and the packet sink     *)
(* (ogg::PacketWriter over f_out)                                          *)
(***************************************************************************)
\* an ogg::Packet as the reader yields it
Packet(data, stream_serial, last_packet_pg, last_packet_stream, absgp_page) ==
    [data |-> data, stream_serial |-> stream_serial,
     last_packet_pg |-> last_packet_pg, last_packet_stream |-> last_packet_stream,
     absgp_page |-> absgp_page]

\* what a read yields in place of a packet when the container is corrupt there
ReadError == [error |-> "read error"]

IsPacket(item) == item # ReadError

\* Payloads of the source packets: an identification header (type 1) and a
\* comment header (vendor "x", one comment "a=b").
IdentData == <<1, 118, 111, 114, 98, 105, 115, 0, 0, 0, 0>>
OldCommentData ==
    <<3, 118, 111, 114, 98, 105, 115, 1, 0, 0, 0, 120,
      1, 0, 0, 0, 3, 0, 0, 0, 97, 61, 98, 1>>
Payloads == {IdentData, OldCommentData}

\* stream serials are only compared with each other
Serials == {1, 2}

\* (last_in_page, last_in_stream) of a packet.  The reader sets last_in_stream
\* on the last packet of a page that carries the end-of-stream flag, so a
\* packet that is last in its stream is last in its page.
PacketFlags == {<<FALSE, FALSE>>, <<TRUE, FALSE>>, <<TRUE, TRUE>>}

\* the packets a read of the source can yield; the granule position is set
\* per source position in PacketRuns
SourcePackets ==
    { Packet(d, s, f[1], f[2], 0) : d \in Payloads, s \in Serials, f \in PacketFlags }

\* a container's packet order: the first packet is of stream 1, and no packet
\* of a stream follows the packet that is last in that stream
WellFormed(g) ==
    /\ Len(g) = 0 \/ g[1].stream_serial = 1
    /\ \A i \in 1..Len(g) : \A j \in (i + 1)..Len(g) :
           g[i].last_packet_stream => g[j].stream_serial # g[i].stream_serial

\* n packets, the packet at position i carrying granule position i
PacketRuns(n) ==
    { [i \in 1..n |-> [f[i] EXCEPT !.absgp_page = i]] :
        f \in { g \in [1..n -> SourcePackets] : WellFormed(g) } }

\* the sources: up to MaxPackets reads that yield something, all of them
\* packets, or all but the last, which is a read error
Sources ==
    UNION { PacketRuns(n) : n \in 0..MaxPackets }
    \cup UNION { { Append(r, ReadError) : r \in PacketRuns(n - 1) } : n \in 1..MaxPackets }

\* the comment headers handed to replace_comment_header
NewHeaders ==
    { from(Ogg, << >>),
      from(<< >>, << <<to_lowercase(<<65>>), <<98>>>> >>) }

\* a mutant of EndInfo: last_in_page is tested before last_in_stream
EndInfoPageFirst(packet) ==
    IF packet.last_packet_pg THEN "EndPage"
    ELSE IF packet.last_packet_stream THEN "EndStream"
    ELSE "NormalPacket"

\* PacketWriteEndInfo of a packet (lines 195-201)
EndInfo(packet) ==
    IF packet.last_packet_stream THEN "EndStream"
    ELSE IF packet.last_packet_pg THEN "EndPage"
    ELSE "NormalPacket"

\* a mutant of IsReplaced: header_done is not consulted
IsReplacedEvery(packet, done) ==
    read_header_comment(packet.data).ok

\* whether this iteration replaces the packet's data (lines 202-212)
IsReplaced(packet, done) ==
    ~done /\ read_header_comment(packet.data).ok

\* packet.data after lines 202-212
PatchedData(packet, done, new_data) ==
    IF IsReplaced(packet, done) THEN new_data ELSE packet.data

\* lastpacket (line 213)
\* a variant that takes the end of any page for the end of the stream
IsLastPacketOfPage(packet) == packet.last_packet_pg

IsLastPacket(packet) == packet.last_packet_stream /\ packet.last_packet_pg

\* a mutant of WritePacket: the granule position is written as 0
WritePacketNoGranule(written, data, serial, inf, absgp) ==
    Append(written, [data |-> data, stream_serial |-> serial,
                     inf |-> inf, absgp_page |-> 0])

\* writer.write_packet(data, serial, inf, absgp): what the sink receives
WritePacket(written, data, serial, inf, absgp) ==
    Append(written, [data |-> data, stream_serial |-> serial,
                     inf |-> inf, absgp_page |-> absgp])

\* a packet written with inf, as a reader of the output yields it
Reread(w) ==
    Packet(w.data, w.stream_serial,
           w.inf \in {"EndPage", "EndStream"}, w.inf = "EndStream",
           w.absgp_page)

\* the output read back as a packet source
RereadAll(written) == [i \in 1..Len(written) |-> Reread(written[i])]

-----------------------------------------------------------------------------
(***************************************************************************)
(* read_comment_header                                                     *)
(***************************************************************************)
ReadOk(hdr, reads) ==
    [kind |-> "Ok", hdr |-> hdr, reads |-> reads, why |-> "none"]
ReadPanic(why, reads) ==
    [kind |-> "Panic", hdr |-> new, reads |-> reads, why |-> why]

\* a variant that goes on to later packets when the matching one fails to decode
RECURSIVE FindCommentPacketRetry(_, _, _)
FindCommentPacketRetry(f_in, stream_serial, k) ==
    IF k > Len(f_in) THEN ReadPanic("NoPacket", k)
    ELSE IF ~IsPacket(f_in[k]) THEN ReadPanic("ReadError", k)
    ELSE IF f_in[k].stream_serial # stream_serial
         THEN FindCommentPacketRetry(f_in, stream_serial, k + 1)
    ELSE LET hdr == read_header_comment(f_in[k].data)
         IN  IF hdr.ok THEN ReadOk(hdr.hdr, k)
             ELSE FindCommentPacketRetry(f_in, stream_serial, k + 1)

\* the while loop and the final decode: the k-th read is the next one
RECURSIVE FindCommentPacket(_, _, _)
FindCommentPacket(f_in, stream_serial, k) ==
    IF k > Len(f_in) THEN ReadPanic("NoPacket", k)
    ELSE IF ~IsPacket(f_in[k]) THEN ReadPanic("ReadError", k)
    ELSE IF f_in[k].stream_serial # stream_serial
         THEN FindCommentPacket(f_in, stream_serial, k + 1)
    ELSE LET hdr == read_header_comment(f_in[k].data)
         IN  IF hdr.ok THEN ReadOk(hdr.hdr, k) ELSE ReadPanic(hdr.err, k)

\* read_comment_header(f_in): the header, or the panic of an unwrap()
read_comment_header(f_in) ==
    IF Len(f_in) = 0 THEN ReadPanic("NoPacket", 1)
    ELSE IF ~IsPacket(f_in[1]) THEN ReadPanic("ReadError", 1)
    ELSE FindCommentPacket(f_in, f_in[1].stream_serial, 2)

-----------------------------------------------------------------------------
(***************************************************************************)
(* State                                                                   *)
(***************************************************************************)
VARIABLES
    source,            \* f_in: what the reads of the source yield, in order
    new_header,        \* the header given to replace_comment_header
    new_sizes,         \* the lengths of new_header that the encoder converts
    pc,                \* where the call is: idle, loop, done, panic, read, reread
    rd,                \* reads of the source made by replace_comment_header
    header_done,       \* header_done
    new_comment_data,  \* new_comment_data
    out,               \* the write_packet calls f_out received, in order
    exit,              \* how the loop was left: none, eof, read_error, lastpacket
    read_result,       \* what read_comment_header gave, kind "none" before it ran
    read_input,        \* what read_comment_header ran on: none, source, output
    header,            \* the CommentHeader the caller holds
    cpc,               \* the life of header: start, build, encoded, decoded
    packet,            \* what make_comment_header(header) gave
    decoded,           \* what read_header_comment gave for packet
    op                 \* the last operation on header, with its arguments

patchVars == << source, new_header, new_sizes, pc, rd, header_done,
                new_comment_data, out, exit, read_result, read_input >>
codecVars == << header, cpc, packet, decoded, op >>
vars == << patchVars, codecVars >>

NoResult == [kind |-> "none", hdr |-> new, reads |-> 0, why |-> "none"]
NoPacket == [panic |-> FALSE, bytes |-> << >>]
NotDecoded == DecodeErr("none")

\* an operation on header: its name, its tag argument, its values (the value of
\* add_tag_single, the values of add_tag_multi, the vendor of set_vendor)
Op(name, tag, values) == [name |-> name, tag |-> tag, values |-> values]
NoOp == Op("none", << >>, << >>)

\* no call of the locator or the patcher is under way
PatchIdle ==
    /\ pc = "idle"
    /\ rd = 0
    /\ header_done = FALSE
    /\ new_comment_data = << >>
    /\ out = << >>
    /\ exit = "none"
    /\ read_result = NoResult
    /\ read_input = "none"

\* no comment header is being built
CodecIdle ==
    /\ header = new
    /\ cpc = "off"
    /\ packet = NoPacket
    /\ decoded = NotDecoded
    /\ op = NoOp

-----------------------------------------------------------------------------
(***************************************************************************)
(* The locator and the patcher                                             *)
(***************************************************************************)
Init ==
    /\ source \in Sources
    /\ new_header \in NewHeaders
    /\ new_sizes = HeaderSizes(new_header)
    /\ PatchIdle
    /\ CodecIdle

\* a call of read_comment_header(source)
ReadCommentHeader ==
    /\ pc = "idle"
    /\ pc' = "read"
    /\ read_result' = read_comment_header(source)
    /\ read_input' = "source"
    /\ UNCHANGED << source, new_header, new_sizes, rd, header_done,
                    new_comment_data, out, exit >>
    /\ UNCHANGED codecVars

\* replace_comment_header up to the loop (lines 180-188)
ReplaceBegin ==
    /\ pc = "idle"
    /\ LET made == MakeCommentHeader(new_header, new_sizes)
       IN  /\ pc' = IF made.panic THEN "panic" ELSE "loop"
           /\ new_comment_data' = made.bytes
    /\ header_done' = FALSE
    /\ out' = << >>
    /\ UNCHANGED << source, new_header, new_sizes, rd, exit, read_result, read_input >>
    /\ UNCHANGED codecVars

\* one iteration that reads a packet: Ok(Some(packet)) (lines 194-227)
ReplacePacket ==
    /\ pc = "loop"
    /\ rd < Len(source)
    /\ IsPacket(source[rd + 1])
    /\ LET p == source[rd + 1]
           inf == EndInfo(p)
           data == PatchedData(p, header_done, new_comment_data)
           lastpacket == IsLastPacket(p)
       IN  /\ header_done' = (header_done \/ IsReplaced(p, header_done))
           /\ out' = WritePacket(out, data, p.stream_serial, inf, p.absgp_page)
           /\ pc' = IF lastpacket THEN "done" ELSE "loop"
           /\ exit' = IF lastpacket THEN "lastpacket" ELSE exit
    /\ rd' = rd + 1
    /\ UNCHANGED << source, new_header, new_sizes, new_comment_data,
                    read_result, read_input >>
    /\ UNCHANGED codecVars

\* a variant that reads again when the source is exhausted
ReplaceEndOfSourceAgain ==
    /\ pc = "loop"
    /\ rd = Len(source)
    /\ UNCHANGED vars

\* the iteration that finds the source exhausted: Ok(None) (line 229)
ReplaceEndOfSource ==
    /\ pc = "loop"
    /\ rd = Len(source)
    /\ pc' = "done"
    /\ exit' = "eof"
    /\ rd' = rd + 1
    /\ UNCHANGED << source, new_header, new_sizes, header_done, new_comment_data,
                    out, read_result, read_input >>
    /\ UNCHANGED codecVars

\* a variant that goes on to the next read after a failed one
ReplaceReadErrorContinue ==
    /\ pc = "loop"
    /\ rd < Len(source)
    /\ ~IsPacket(source[rd + 1])
    /\ pc' = "loop"
    /\ exit' = "read_error"
    /\ rd' = rd + 1
    /\ UNCHANGED << source, new_header, new_sizes, header_done, new_comment_data,
                    out, read_result, read_input >>
    /\ UNCHANGED codecVars

\* the iteration whose read fails: Err(error) (lines 232-235)
ReplaceReadError ==
    /\ pc = "loop"
    /\ rd < Len(source)
    /\ ~IsPacket(source[rd + 1])
    /\ pc' = "done"
    /\ exit' = "read_error"
    /\ rd' = rd + 1
    /\ UNCHANGED << source, new_header, new_sizes, header_done, new_comment_data,
                    out, read_result, read_input >>
    /\ UNCHANGED codecVars

\* what replace_comment_header hands to its caller after the loop: f_out,
\* rewound, whichever way the loop was left (lines 238-239)
ReplaceReturn(f_out, how) == f_out

\* a call of read_comment_header on the output replace_comment_header returned
ReadOutput ==
    /\ pc = "done"
    /\ pc' = "reread"
    /\ read_result' = read_comment_header(RereadAll(ReplaceReturn(out, exit)))
    /\ read_input' = "output"
    /\ UNCHANGED << source, new_header, new_sizes, rd, header_done,
                    new_comment_data, out, exit >>
    /\ UNCHANGED codecVars

Next ==
    \/ ReadCommentHeader
    \/ ReplaceBegin
    \/ ReplacePacket
    \/ ReplaceEndOfSource
    \/ ReplaceReadError
    \/ ReadOutput

Spec == Init /\ [][Next]_vars

-----------------------------------------------------------------------------
(***************************************************************************)
(* The comment header: built, encoded, decoded                             *)
(***************************************************************************)
\* the comment lists of up to MaxTags comments
CommentLists == UNION { [1..n -> Keys \X Values] : n \in 0..MaxTags }

\* the value lists given to add_tag_multi
ValueLists == UNION { [1..n -> Values] : n \in 0..MaxTags }

\* before the caller constructs a header
InitCodec ==
    /\ header = new
    /\ cpc = "start"
    /\ packet = NoPacket
    /\ decoded = NotDecoded
    /\ op = NoOp
    /\ source = << >>
    /\ new_header = new
    /\ new_sizes = HeaderSizes(new)
    /\ PatchIdle

\* CommentHeader::new()
New ==
    /\ cpc = "start"
    /\ cpc' = "build"
    /\ header' = new
    /\ op' = Op("new", << >>, << >>)
    /\ UNCHANGED << packet, decoded >>
    /\ UNCHANGED patchVars

\* CommentHeader::from(vendor, comment_list)
From ==
    /\ cpc = "start"
    /\ cpc' = "build"
    /\ \E vendor \in Vendors, comment_list \in CommentLists :
           header' = from(vendor, comment_list)
    /\ op' = Op("from", << >>, << >>)
    /\ UNCHANGED << packet, decoded >>
    /\ UNCHANGED patchVars

AddTagSingle ==
    /\ cpc = "build"
    /\ Len(header.comment_list) < MaxTags
    /\ \E tag \in Keys, value \in Values :
           /\ header' = add_tag_single(header, tag, value)
           /\ op' = Op("add_tag_single", tag, <<value>>)
    /\ UNCHANGED << cpc, packet, decoded >>
    /\ UNCHANGED patchVars

AddTagMulti ==
    /\ cpc = "build"
    /\ \E tag \in Keys, values \in ValueLists :
           /\ Len(header.comment_list) + Len(values) <= MaxTags
           /\ header' = add_tag_multi(header, tag, values)
           /\ op' = Op("add_tag_multi", tag, values)
    /\ UNCHANGED << cpc, packet, decoded >>
    /\ UNCHANGED patchVars

ClearTag ==
    /\ cpc = "build"
    /\ \E tag \in Keys :
           /\ header' = clear_tag(header, tag)
           /\ op' = Op("clear_tag", tag, << >>)
    /\ UNCHANGED << cpc, packet, decoded >>
    /\ UNCHANGED patchVars

SetVendor ==
    /\ cpc = "build"
    /\ \E vend \in Vendors :
           /\ header' = set_vendor(header, vend)
           /\ op' = Op("set_vendor", << >>, <<vend>>)
    /\ UNCHANGED << cpc, packet, decoded >>
    /\ UNCHANGED patchVars

\* make_comment_header(&header)
Encode ==
    /\ cpc = "build"
    /\ cpc' = "encoded"
    /\ packet' = make_comment_header(header)
    /\ op' = Op("make_comment_header", << >>, << >>)
    /\ UNCHANGED << header, decoded >>
    /\ UNCHANGED patchVars

\* read_header_comment on the packet the encoder made
Decode ==
    /\ cpc = "encoded"
    /\ ~packet.panic
    /\ cpc' = "decoded"
    /\ decoded' = read_header_comment(packet.bytes)
    /\ UNCHANGED << header, packet, op >>
    /\ UNCHANGED patchVars

NextCodec ==
    \/ New
    \/ From
    \/ AddTagSingle
    \/ AddTagMulti
    \/ ClearTag
    \/ SetVendor
    \/ Encode
    \/ Decode

SpecCodec == InitCodec /\ [][NextCodec]_vars

-----------------------------------------------------------------------------
(***************************************************************************)
(* Headers too long for the wire format                                    *)
(***************************************************************************)
\* 2^32, the first length that does not fit a u32
TwoTo32 == [hi |-> Half, lo |-> 0]

\* Headers with a length of 2^32.  header holds what of the header is short
\* enough to write out, sizes the lengths the encoder finds: a vendor of 2^32
\* bytes; 2^32 comments; a comment of 2^32 bytes, first or after a short one.
\* comment_len lists the comments up to the one the loop panics on.
HugeHeaders ==
    { [header |-> new,
       sizes  |-> [vendor_len |-> TwoTo32, comment_nbr |-> USize(0),
                   comment_len |-> << >>]],
      [header |-> from(Ogg, << >>),
       sizes  |-> [vendor_len |-> USize(3), comment_nbr |-> TwoTo32,
                   comment_len |-> << >>]],
      [header |-> from(Ogg, << >>),
       sizes  |-> [vendor_len |-> USize(3), comment_nbr |-> USize(1),
                   comment_len |-> <<TwoTo32>>]],
      [header |-> from(Ogg, << <<<<97>>, <<98>>>> >>),
       sizes  |-> [vendor_len |-> USize(3), comment_nbr |-> USize(2),
                   comment_len |-> <<USize(3), TwoTo32>>]] }

\* the headers of NewHeaders with their lengths
SizedHeaders == { [header |-> h, sizes |-> HeaderSizes(h)] : h \in NewHeaders }

InitOverflow ==
    /\ source \in { f \in Sources : Len(f) <= 1 }
    /\ \E h \in HugeHeaders \cup SizedHeaders :
           /\ new_header = h.header
           /\ new_sizes = h.sizes
    /\ PatchIdle
    /\ CodecIdle

SpecOverflow == InitOverflow /\ [][Next]_vars

-----------------------------------------------------------------------------
(***************************************************************************)
(* Properties of replace_comment_header and read_comment_header (Spec)     *)
(***************************************************************************)
\* replace_comment_header has returned
Returned == pc \in {"done", "reread"}

\* every read of the source yields a packet: a container of Len(source) packets
AllPackets(f) == \A i \in 1..Len(f) : IsPacket(f[i])

\* the payload of the i-th packet of f decodes as a comment block
Decodes(f, i) == IsPacket(f[i]) /\ read_header_comment(f[i].data).ok

\* the position of the first packet of f that decodes, 0 when none does
FirstDecodable(f) ==
    IF \E i \in 1..Len(f) : Decodes(f, i)
    THEN CHOOSE i \in 1..Len(f) :
             Decodes(f, i) /\ \A j \in 1..(i - 1) : ~Decodes(f, j)
    ELSE 0

\* C1: for a source of N packets (no read error), the output that
\* replace_comment_header returns holds exactly N packets, wherever the packets
\* flagged last-in-stream are.
C1_OutputHoldsEveryPacket ==
    (Returned /\ AllPackets(source)) => Len(out) = Len(source)

\* C2: the i-th packet written has the stream serial and the granule position
\* of the i-th packet read (the replaced one too), in source order, and the
\* same payload except for at most one packet.
C2_PacketsPassThrough ==
    /\ Len(out) <= Len(source)
    /\ \A i \in 1..Len(out) :
           /\ IsPacket(source[i])
           /\ out[i].stream_serial = source[i].stream_serial
           /\ out[i].absgp_page = source[i].absgp_page
    /\ Cardinality({ i \in 1..Len(out) : out[i].data # source[i].data }) <= 1

\* C2 witness: three packets written, the second with a new payload
C2_Witness ==
    /\ Returned
    /\ Len(out) = 3
    /\ out[2].data # source[2].data
    /\ source[2].stream_serial # source[1].stream_serial

\* C3 (state part): of the packets written, exactly the first packet of the
\* source that decodes as a comment block carries the encoded new header;
\* every other packet written, before or after it, carries its own payload;
\* header_done tells whether that packet has been written.
C3_State ==
    LET first == FirstDecodable(source)
    IN  /\ \A i \in 1..Len(out) :
               out[i].data = IF i = first THEN make_comment_header(new_header).bytes
                                          ELSE source[i].data
        /\ header_done = (first # 0 /\ first <= Len(out))

\* C3: replace_comment_header replaces the payload of exactly the first
\* packet that decodes as a comment block and of no other packet, and
\* header_done, once true, stays true.
C3_OnlyFirstCommentReplaced ==
    [](C3_State) /\ [][header_done => header_done']_vars

\* C3 witness: two packets that decode were written, the first replaced, the
\* second kept, after a packet that does not decode
C3_Witness ==
    /\ Returned
    /\ Len(out) = 3
    /\ ~Decodes(source, 1) /\ Decodes(source, 2) /\ Decodes(source, 3)
    /\ out[2].data # source[2].data
    /\ out[3].data = source[3].data
    /\ header_done

\* the codec's round-trip domain: no key holds a '='
NoEqInKeys(h) ==
    \A i \in 1..Len(h.comment_list) : FindEq(h.comment_list[i][1]) = 0

\* C4: whenever read_comment_header succeeds on the source and the new header
\* is in the round-trip domain, read_comment_header on the output of
\* replace_comment_header returns the new header.
C4_LocatorReadsReplacement ==
    (/\ pc = "reread"
     /\ read_comment_header(source).kind = "Ok"
     /\ NoEqInKeys(new_header))
    => (read_result.kind = "Ok" /\ read_result.hdr = new_header)

\* the boundary class of a packet by its flags
BoundaryClass(p) ==
    CASE p.last_packet_pg /\ p.last_packet_stream  -> "EndStream"
      [] p.last_packet_pg /\ ~p.last_packet_stream -> "EndPage"
      [] OTHER                                     -> "NormalPacket"

C6_NothingToReplace ==
    (AllPackets(source) /\ FirstDecodable(source) = 0)
    => /\ (pc = "read" =>
              (read_result.kind = "Err" /\ read_result.why = "NotFound"))
       /\ (Returned =>
              (/\ ~header_done
               /\ \A i \in 1..Len(out) : out[i].data = source[i].data))

\* the source is exhausted before a second packet of the first packet's stream
Exhausted(f) ==
    /\ AllPackets(f)
    /\ \/ Len(f) = 0
       \/ \A i \in 2..Len(f) : f[i].stream_serial # f[1].stream_serial

\* the second packet of the first packet's stream, 0 when there is none
SecondOfStream(f) ==
    IF Exhausted(f) THEN 0
    ELSE CHOOSE i \in 2..Len(f) :
             /\ f[i].stream_serial = f[1].stream_serial
             /\ \A j \in 2..(i - 1) : f[j].stream_serial # f[1].stream_serial

\* C10: read_comment_header ends with a header or with an error value, never
\* a panic: NotFound when the source is exhausted before a matching packet,
\* MalformedPacket when the matching packet is no comment block.
C10_ReadFailuresAreValues ==
    (pc = "read" /\ AllPackets(source))
    => /\ read_result.kind \in {"Ok", "Err"}
       /\ (Exhausted(source) =>
              (read_result.kind = "Err" /\ read_result.why = "NotFound"))
       /\ ((~Exhausted(source) /\ ~Decodes(source, SecondOfStream(source))) =>
              (read_result.kind = "Err" /\ read_result.why = "MalformedPacket"))

\* C11: when a read fails partway through replace_comment_header, what the
\* caller receives differs from what it receives when the same packets were
\* written and the source simply ended: the partial output is not handed back
\* as a complete one.
C11_ReadErrorIsDistinguishable ==
    (Returned /\ exit = "read_error")
    => ReplaceReturn(out, exit) # ReplaceReturn(out, "eof")

\* a packet flagged both last in its stream and last in its page
Terminal(p) == IsPacket(p) /\ p.last_packet_stream /\ p.last_packet_pg

\* the position of the first such packet of f that the reads reach, 0 when
\* there is none
FirstTerminal(f) ==
    IF \E i \in 1..Len(f) :
           Terminal(f[i]) /\ \A j \in 1..(i - 1) : IsPacket(f[j]) /\ ~Terminal(f[j])
    THEN CHOOSE i \in 1..Len(f) :
             Terminal(f[i]) /\ \A j \in 1..(i - 1) : IsPacket(f[j]) /\ ~Terminal(f[j])
    ELSE 0

TargetAt(f) ==
    IF \E i \in 2..Len(f) :
           /\ \A j \in 1..i : IsPacket(f[j])
           /\ f[i].stream_serial = f[1].stream_serial
           /\ \A j \in 2..(i - 1) : f[j].stream_serial # f[1].stream_serial
    THEN CHOOSE i \in 2..Len(f) :
             /\ \A j \in 1..i : IsPacket(f[j])
             /\ f[i].stream_serial = f[1].stream_serial
             /\ \A j \in 2..(i - 1) : f[j].stream_serial # f[1].stream_serial
    ELSE 0

\* C17: read_comment_header takes the serial of the first packet as the
\* target, passes over the following packets with another serial and decodes
\* exactly the first following packet with the target serial; when that one
\* does not decode it does not go on to later packets.
C17_LocatorDecodesFirstMatch ==
    (pc = "read" /\ TargetAt(source) # 0)
    => LET t == TargetAt(source)
       IN  /\ read_result.reads = t
           /\ Decodes(source, t)
              => /\ read_result.kind = "Ok"
                 /\ read_result.hdr = read_header_comment(source[t].data).hdr
           /\ ~Decodes(source, t) => read_result.kind = "Panic"

\* C17 witness: the second packet belongs to another stream and would decode;
\* the third has the target serial and is the one decoded
C17_Witness ==
    /\ pc = "read"
    /\ Len(source) = 3
    /\ AllPackets(source)
    /\ source[2].stream_serial # source[1].stream_serial
    /\ Decodes(source, 2)
    /\ TargetAt(source) = 3
    /\ read_result.kind = "Ok"
    /\ read_result.reads = 3

\* the position of the first read of f that fails, 0 when none does
ErrorAt(f) ==
    IF AllPackets(f) THEN 0
    ELSE CHOOSE k \in 1..Len(f) :
             ~IsPacket(f[k]) /\ \A i \in 1..(k - 1) : IsPacket(f[i])

\* the state of a run that left the loop on a read error
C18_State ==
    LET k == ErrorAt(source)
    IN  /\ exit = "read_error"
           => /\ k # 0
              /\ rd = k
              /\ Returned
              /\ Len(out) = k - 1
              /\ \A i \in 1..(k - 1) :
                     /\ out[i].stream_serial = source[i].stream_serial
                     /\ out[i].absgp_page = source[i].absgp_page
        /\ (Returned /\ k # 0 /\ FirstTerminal(source) = 0)
           => exit = "read_error"

\* C18: when the k-th read of replace_comment_header fails, processing stops
\* at once: the output holds exactly the packets of the k-1 reads before, in
\* source order, and nothing is read or written after the failed read.
C18_StopsAtReadError ==
    /\ [](C18_State)
    /\ [][exit = "read_error" => (rd' = rd /\ out' = out)]_vars

\* C18 witness: the third read failed, two packets were written, the call
\* returned
C18_Witness ==
    /\ pc = "done"
    /\ exit = "read_error"
    /\ ErrorAt(source) = 3
    /\ rd = 3
    /\ Len(out) = 2

\* a call has ended: read_comment_header with its result, or
\* replace_comment_header with its output read back, or in a panic
Ended == pc \in {"read", "reread", "panic"}

\* one step of the loop of replace_comment_header: one more read, and the loop
\* goes on or is left at the end of the source, on a read error or on a packet
\* last in stream and page
C19_Iteration ==
    pc = "loop"
    => /\ rd' = rd + 1
       /\ \/ pc' = "loop" /\ exit' = exit
          \/ pc' = "done" /\ exit' = "eof" /\ rd = Len(source)
          \/ pc' = "done" /\ exit' = "read_error" /\ ~IsPacket(source[rd'])
          \/ pc' = "done" /\ exit' = "lastpacket" /\ Terminal(source[rd'])

\* the steps a run can still take at most: the reads left and the return in
\* the loop, one more for the call itself before it
StepsLeft ==
    CASE pc = "idle" -> Len(source) + 4
      [] pc = "loop" -> Len(source) + 3 - rd
      [] pc = "done" -> 1
      [] OTHER -> 0

\* C19: replace_comment_header ends on every finite source: each iteration
\* of its loop takes one read or leaves the loop (at the end of the source, on
\* a read error, on a packet last in stream and page), so that the steps left
\* go down with every step and a run that has not ended always has a next
\* step; read_comment_header ends on every finite source too, within one read
\* more than the source holds.
C19_Terminates ==
    /\ [](StepsLeft >= 0 /\ rd <= Len(source) + 1)
    /\ [](Ended \/ ENABLED <<Next>>_vars)
    /\ [](pc = "read" => /\ read_result.kind \in {"Ok", "Panic"}
                         /\ read_result.reads <= Len(source) + 1)
    /\ [][C19_Iteration]_vars
    /\ [][StepsLeft' < StepsLeft]_vars

\* C19 witness: a source of three packets was read to its end, the fourth read
\* found it exhausted and the call returned
C19_Witness ==
    /\ pc = "done"
    /\ exit = "eof"
    /\ Len(source) = 3
    /\ rd = 4
    /\ Len(out) = 3

-----------------------------------------------------------------------------
(***************************************************************************)
(* Properties of make_comment_header (SpecCodec, SpecOverflow)             *)
(***************************************************************************)
\* C7 as stated: decoding the made packet gives back the header, for every
\* header (keys with '=' included).
C7_RoundTripAnyKey ==
    cpc = "decoded" => (decoded.ok /\ decoded.hdr = header)

\* C7, amended: for every header none of whose keys holds a '=' (values may,
\* and keys need not be lowercase), decoding the packet make_comment_header
\* made gives the header back: same vendor, same pairs in the same order.
C7_RoundTrip ==
    (cpc = "decoded" /\ NoEqInKeys(header))
    => (decoded.ok /\ decoded.hdr = header)

\* C7 witness: a decoded header of two comments with an uppercase key and a
\* value that holds a '='
C7_Witness ==
    /\ cpc = "decoded"
    /\ header = from(Ogg, << <<<<65>>, <<EqSign, 98>>>>, <<<<97>>, << >>>> >>)

\* the little-endian u32 of a number below 256
Le4(n) == <<n, 0, 0, 0>>

\* the bytes of a comment on the wire, its length field included
WireLen(comment) == 4 + Len(comment[1]) + 1 + Len(comment[2])

\* the bytes the first n comments take on the wire
RECURSIVE WireLenSum(_, _)
WireLenSum(comment_list, n) ==
    IF n = 0 THEN 0
    ELSE WireLenSum(comment_list, n - 1) + WireLen(comment_list[n])

\* C8: the packet is the 7 magic bytes, the vendor length (u32, little
\* endian), the vendor, the pair count (u32, little endian), per pair in list
\* order the length of "key=value" (u32, little endian) and those bytes, and
\* the framing byte 1; its length is 7 + 4 + |vendor| + 4 + the sum of
\* (4 + |key| + 1 + |value|) + 1; vendor "Ogg" without tags gives the 19 bytes
\* 03 76 6F 72 62 69 73 03 00 00 00 4F 67 67 00 00 00 00 01.
C8_WireLayout ==
    cpc \in {"encoded", "decoded"} =>
        LET p == packet.bytes
            v == header.vendor
            cl == header.comment_list
            base == 15 + Len(v)
        IN  /\ ~packet.panic
            /\ Len(p) = 7 + 4 + Len(v) + 4 + WireLenSum(cl, Len(cl)) + 1
            /\ SubSeq(p, 1, 7) = <<3, 118, 111, 114, 98, 105, 115>>
            /\ SubSeq(p, 8, 11) = Le4(Len(v))
            /\ SubSeq(p, 12, 11 + Len(v)) = v
            /\ SubSeq(p, 12 + Len(v), base) = Le4(Len(cl))
            /\ \A i \in 1..Len(cl) :
                   LET at == base + WireLenSum(cl, i - 1)
                       k == cl[i][1]
                       val == cl[i][2]
                   IN  /\ SubSeq(p, at + 1, at + 4) = Le4(Len(k) + 1 + Len(val))
                       /\ SubSeq(p, at + 5, at + 4 + Len(k)) = k
                       /\ p[at + 5 + Len(k)] = 61
                       /\ SubSeq(p, at + 6 + Len(k), at + 5 + Len(k) + Len(val)) = val
            /\ p[Len(p)] = 1
            /\ (v = <<79, 103, 103>> /\ cl = << >>) =>
                   p = <<3, 118, 111, 114, 98, 105, 115, 3, 0, 0, 0,
                         79, 103, 103, 0, 0, 0, 0, 1>>

\* C8 witness: the packet of vendor "Ogg" with two comments
C8_Witness ==
    /\ cpc = "encoded"
    /\ header.vendor = Ogg
    /\ Len(header.comment_list) = 2
    /\ header.comment_list[1] # header.comment_list[2]

\* no capital letter A..Z in the text
NoCapital(text) == \A i \in 1..Len(text) : text[i] < 65 \/ text[i] > 90

\* C12: every key stored in the tag list is lowercase, whichever way the
\* block was constructed and whatever was called on it since, and so is every
\* key that make_comment_header wrote, as read back from the wire.
C12_StoredKeysLowercase ==
    /\ cpc \in {"build", "encoded", "decoded"}
       => \A i \in 1..Len(header.comment_list) :
              NoCapital(header.comment_list[i][1])
    /\ (cpc = "decoded" /\ decoded.ok)
       => \A i \in 1..Len(decoded.hdr.comment_list) :
              NoCapital(decoded.hdr.comment_list[i][1])

\* two bytes that are the same letter, or the same byte
SameLetter(x, y) ==
    \/ x = y
    \/ x \in 65..90 /\ y = x + 32
    \/ y \in 65..90 /\ x = y + 32

\* two texts equal but for the case of their letters
EqIgnoreCase(a, b) ==
    /\ Len(a) = Len(b)
    /\ \A i \in 1..Len(a) : SameLetter(a[i], b[i])

\* the positions of the pairs of comment_list whose key is tag, ignoring case
Matching(comment_list, tag) ==
    { i \in 1..Len(comment_list) : EqIgnoreCase(comment_list[i][1], tag) }

\* the j-th smallest of a set of positions
Nth(positions, j) ==
    CHOOSE i \in positions : Cardinality({ m \in positions : m < i }) = j - 1

\* the pairs of comment_list at the given positions, in their order
PairsAt(comment_list, positions) ==
    [j \in 1..Cardinality(positions) |-> comment_list[Nth(positions, j)]]

\* the tags a caller may ask for
Tags == Keys

\* C13: get_tag_multi(k) gives the values of exactly the pairs whose key is k
\* ignoring case, in the order of the list; get_tag_single(k) gives the first
\* of them, or nothing when there is none.
C13_GetTagValues ==
    cpc = "build"
    => \A tag \in Tags :
           LET at == Matching(header.comment_list, tag)
               pairs == PairsAt(header.comment_list, at)
               values == get_tag_multi(header, tag)
               first == get_tag_single(header, tag)
           IN  /\ Len(values) = Cardinality(at)
               /\ \A j \in 1..Len(values) : values[j] = pairs[j][2]
               /\ first.some = (at # {})
               /\ first.some => first.value = pairs[1][2]

\* C13 witness: add_tag_single("A", "b") then add_tag_single("a", "=b") were
\* called on an empty block, and get_tag_multi("A") gives both values in order
C13_Witness ==
    /\ cpc = "build"
    /\ op = Op("add_tag_single", <<97>>, << <<EqSign, 98>> >>)
    /\ header.comment_list = << << <<97>>, <<98>> >>, << <<97>>, <<EqSign, 98>> >> >>
    /\ get_tag_multi(header, <<65>>) = << <<98>>, <<EqSign, 98>> >>
    /\ get_tag_single(header, <<65>>) = Some(<<98>>)

\* a comes before b in the order of texts: at the first position where they
\* differ a has the smaller byte, or a is a proper prefix of b
Before(a, b) ==
    \E n \in 0..Len(a) :
        /\ n <= Len(b)
        /\ \A i \in 1..n : a[i] = b[i]
        /\ \/ n = Len(a) /\ n < Len(b)
           \/ n < Len(a) /\ n < Len(b) /\ a[n + 1] < b[n + 1]

\* the text with the case of each of its letters changed
OtherCase(text) ==
    [i \in 1..Len(text) |->
        IF text[i] \in 65..90 THEN text[i] + 32
        ELSE IF text[i] \in 97..122 THEN text[i] - 32
        ELSE text[i]]

\* the ways to put n things in another order
Orders(n) == { f \in [1..n -> 1..n] : \A i, j \in 1..n : i # j => f[i] # f[j] }

\* the lists that differ from comment_list only in the order of the pairs and
\* in the case of the letters of some keys
Rearranged(comment_list) ==
    LET n == Len(comment_list)
    IN  { [i \in 1..n |->
              << IF i \in changed THEN OtherCase(comment_list[f[i]][1])
                 ELSE comment_list[f[i]][1],
                 comment_list[f[i]][2] >>] :
          f \in Orders(n), changed \in SUBSET (1..n) }

\* C14: get_tag_names gives the lowercased keys of the block, each exactly
\* once, in strictly ascending order; and it gives the same for any block
\* whose list differs only in the order of the pairs or the case of the keys.
C14_TagNames ==
    cpc = "build"
    => LET names == get_tag_names(header)
           comment_list == header.comment_list
       IN  /\ \A j \in 1..Len(names) :
                  /\ NoCapital(names[j])
                  /\ \E i \in 1..Len(comment_list) :
                         EqIgnoreCase(comment_list[i][1], names[j])
           /\ \A i \in 1..Len(comment_list) :
                  \E j \in 1..Len(names) :
                      EqIgnoreCase(comment_list[i][1], names[j])
           /\ \A j \in 1..(Len(names) - 1) : Before(names[j], names[j + 1])
           /\ \A j, k \in 1..Len(names) : j # k => names[j] # names[k]
           /\ \A other \in Rearranged(comment_list) :
                  get_tag_names(from(header.vendor, other)) = names

\* C14 witness: a block with the keys "a=", "A" in this order; the names are
\* "a", "a="
C14_Witness ==
    /\ cpc = "build"
    /\ Len(header.comment_list) = 2
    /\ header.comment_list[1][1] = <<97, EqSign>>
    /\ header.comment_list[2][1] = <<65>>
    /\ get_tag_names(header) = << <<97>>, <<97, EqSign>> >>

\* the names in a list of names
NamesIn(names) == { names[j] : j \in 1..Len(names) }

\* C15: a call clear_tag(k) removes exactly the pairs whose key is k ignoring
\* case: afterwards get_tag_multi(k') is empty for every k' equal to k
\* ignoring case and get_tag_names() lacks lowercase(k); every other pair is
\* still there with its value, in the same relative order; the vendor is as
\* before.
C15_ClearTagStep ==
    (cpc = "build" /\ op'.name = "clear_tag")
    => LET tag == op'.tag
           kept == (1..Len(header.comment_list))
                       \ Matching(header.comment_list, tag)
           pairs == PairsAt(header.comment_list, kept)
       IN  /\ \A t \in Tags :
                  EqIgnoreCase(t, tag) => get_tag_multi(header', t) = << >>
           /\ to_lowercase(tag) \notin NamesIn(get_tag_names(header'))
           /\ Len(header'.comment_list) = Cardinality(kept)
           /\ \A j \in 1..Cardinality(kept) : header'.comment_list[j] = pairs[j]
           /\ header'.vendor = header.vendor

C15_ClearTag == [][C15_ClearTagStep]_vars

\* C15 witness: clear_tag("A") was called and the block still holds a pair
\* with another key, and a vendor
C15_Witness ==
    /\ cpc = "build"
    /\ op = Op("clear_tag", <<65>>, << >>)
    /\ Len(header.comment_list) = 1
    /\ header.comment_list[1] = << <<97, EqSign>>, <<98>> >>
    /\ header.vendor = Ogg

\* add_tag_single called once for each of the values from the i-th on, in order
RECURSIVE AddSingles(_, _, _, _)
AddSingles(hdr, tag, values, i) ==
    IF i > Len(values) THEN hdr
    ELSE AddSingles(add_tag_single(hdr, tag, values[i]), tag, values, i + 1)

\* C20: a call add_tag_multi(k, [v1..vn]) leaves the block as n calls
\* add_tag_single(k, v1) .. add_tag_single(k, vn) would: n pairs
\* (lowercase(k), vi) are added at the end in the order of the values, no pair
\* that was there and not the vendor is changed, and an empty list of values
\* changes nothing.
C20_AddTagMultiStep ==
    (cpc = "build" /\ op'.name = "add_tag_multi")
    => LET tag == op'.tag
           values == op'.values
           was == Len(header.comment_list)
       IN  /\ header' = AddSingles(header, tag, values, 1)
           /\ Len(header'.comment_list) = was + Len(values)
           /\ \A i \in 1..was : header'.comment_list[i] = header.comment_list[i]
           /\ \A j \in 1..Len(values) :
                  /\ NoCapital(header'.comment_list[was + j][1])
                  /\ EqIgnoreCase(header'.comment_list[was + j][1], tag)
                  /\ header'.comment_list[was + j][2] = values[j]
           /\ header'.vendor = header.vendor
           /\ Len(values) = 0 => header' = header

C20_AddTagMulti == [][C20_AddTagMultiStep]_vars

\* C20 witness: add_tag_multi("A", ["b", ""]) was called on a block without
\* tags, which now holds ("a", "b"), ("a", "")
C20_Witness ==
    /\ cpc = "build"
    /\ op = Op("add_tag_multi", <<65>>, << <<98>>, << >> >>)
    /\ header.comment_list = << << <<97>>, <<98>> >>, << <<97>>, << >> >> >>

\* C9: when the vendor length, the comment count or a comment's length
\* exceeds the u32 range, the call ends with an Overflow error value (no
\* panic, no truncated field) and replace_comment_header has written no
\* packet.
C9_OverflowIsAnErrorValue ==
    (ConversionPanics(new_sizes) /\ pc \notin {"idle", "read"})
    => (pc = "overflow_error" /\ out = << >>)

=============================================================================
